---- MODULE Spec2Model ----
(***************************************************************************)
(* A model of api/index.py: a Flask facade over yt-dlp and youtube_search  *)
(* with a process-wide in-memory response cache.                           *)
(*                                                                         *)
(* Python strings that the code takes apart (split, strip, concatenation   *)
(* into cache keys) are sequences of one-character strings.  An optional   *)
(* value (request.args.get(..) that may return None) is a record           *)
(* [some |-> FALSE] or [some |-> TRUE, v |-> value].                       *)
(***************************************************************************)
EXTENDS Integers, Sequences, FiniteSets, TLC

VARIABLES
    cache,       \* the flask_caching SimpleCache: key -> stored value
    slots,       \* one record per worker thread: the request it serves
    lastStored,  \* history: per key, the value of the most recent cache.set
    prev,        \* history: the most recently completed request and response
    nreq,        \* number of requests received so far
    durIn,       \* argument of to_iso_duration
    durOut,      \* its outcome
    fmtIn,       \* the extraction result handed to build_formats_list
    fmtOut,      \* outcome of build_formats_list
    audioOut,    \* response of /api/audio for fmtIn
    keyReqA,     \* two requests to caching endpoints
    keyReqB,
    keyOut       \* their cache keys

serverVars == <<cache, slots, lastStored, prev, nreq>>
durVars == <<durIn, durOut>>
fmtVars == <<fmtIn, fmtOut, audioOut>>
keyVars == <<keyReqA, keyReqB, keyOut>>
vars == <<cache, slots, lastStored, prev, nreq, durIn, durOut,
          fmtIn, fmtOut, audioOut, keyReqA, keyReqB, keyOut>>

-----------------------------------------------------------------------------
(* Bounds of the model.                                                    *)

\* longest duration string handed to to_iso_duration
MaxDurLen == 5
\* longest `formats` list of an extraction result in the format specification
MaxFormats == 2
\* longest raw query-parameter value in the cache-key specification
MaxParamLen == 2
\* number of requests the server receives in one behaviour
MaxRequests == 2
\* number of requests in one behaviour of the race specification
MaxRaceRequests == 3
\* number of worker threads serving requests concurrently
NumWorkers == 2

-----------------------------------------------------------------------------
(* Python values.                                                          *)

NoneV == [some |-> FALSE]
Some(x) == [some |-> TRUE, v |-> x]

\* truth value of an optional string: None and '' are falsy
Truthy(o) == o.some /\ o.v # <<>>

\* request.args.get(name, ''): the default replaces an absent parameter
OrEmpty(o) == IF o.some THEN o.v ELSE <<>>

\* all sequences over S of length at most n
RECURSIVE SeqsUpTo(_, _)
SeqsUpTo(S, n) ==
    IF n = 0 THEN {<<>>}
    ELSE LET shorter == SeqsUpTo(S, n - 1)
         IN shorter \cup {Append(s, c) : s \in shorter, c \in S}

\* str.split(sep) for a one-character separator
RECURSIVE Split(_, _)
Split(s, sep) ==
    IF \A i \in 1..Len(s) : s[i] # sep THEN <<s>>
    ELSE LET i == CHOOSE j \in 1..Len(s) :
                      s[j] = sep /\ \A k \in 1..(j - 1) : s[k] # sep
         IN <<SubSeq(s, 1, i - 1)>> \o Split(SubSeq(s, i + 1, Len(s)), sep)

\* str.strip(): leading and trailing whitespace removed
RECURSIVE Strip(_)
Strip(s) ==
    IF s = <<>> THEN s
    ELSE IF Head(s) = " " THEN Strip(Tail(s))
    ELSE IF s[Len(s)] = " " THEN Strip(SubSeq(s, 1, Len(s) - 1))
    ELSE s

Digits == <<"0", "1", "2", "3", "4", "5", "6", "7", "8", "9">>
IsDigit(c) == \E i \in 1..10 : Digits[i] = c
DigitVal(c) == (CHOOSE i \in 1..10 : Digits[i] = c) - 1

\* str.isdigit(): non-empty and every character a digit
IsDigitStr(s) == s # <<>> /\ \A i \in 1..Len(s) : IsDigit(s[i])

\* int(s) succeeds (on the characters of the model: no sign, no blank)
CanInt(s) == IsDigitStr(s)

RECURSIVE PyInt(_)
PyInt(s) == IF s = <<>> THEN 0
            ELSE 10 * PyInt(SubSeq(s, 1, Len(s) - 1)) + DigitVal(s[Len(s)])

\* f"{n}" for a non-negative integer
RECURSIVE Dec(_)
Dec(n) == IF n < 10 THEN <<Digits[n + 1]>>
          ELSE Dec(n \div 10) \o <<Digits[(n % 10) + 1]>>

-----------------------------------------------------------------------------
(* to_iso_duration                                                         *)

Raised == [raised |-> TRUE]
Returned(x) == [raised |-> FALSE, val |-> x]

to_iso_duration(duration_str) ==
    LET parts == IF Truthy(duration_str) THEN Split(duration_str.v, ":")
                 ELSE <<>>
        PT == <<"P", "T">>
    IN IF Len(parts) = 3 THEN
            IF \E i \in 1..3 : ~CanInt(parts[i]) THEN Raised
            ELSE Returned(PT
                   \o (IF PyInt(parts[1]) # 0
                       THEN Dec(PyInt(parts[1])) \o <<"H">> ELSE <<>>)
                   \o Dec(PyInt(parts[2])) \o <<"M">>
                   \o Dec(PyInt(parts[3])) \o <<"S">>)
       ELSE IF Len(parts) = 2 THEN
            IF \E i \in 1..2 : ~CanInt(parts[i]) THEN Raised
            ELSE Returned(PT \o Dec(PyInt(parts[1])) \o <<"M">>
                             \o Dec(PyInt(parts[2])) \o <<"S">>)
       ELSE IF Len(parts) = 1 /\ IsDigitStr(parts[1]) THEN
            Returned(PT \o Dec(PyInt(parts[1])) \o <<"S">>)
       ELSE Returned(PT \o <<"0", "S">>)

DurChars == {"0", "7", ":", "x"}
DurInputs == {NoneV} \cup {Some(s) : s \in SeqsUpTo(DurChars, MaxDurLen)}

Pending == [pending |-> TRUE]

ServerIdle ==
    /\ cache = << >>
    /\ slots = << >>
    /\ lastStored = << >>
    /\ prev = NoneV
    /\ nreq = 0

FmtIdle == fmtIn = NoneV /\ fmtOut = Pending /\ audioOut = Pending
KeyIdle == keyReqA = NoneV /\ keyReqB = NoneV /\ keyOut = Pending
DurIdle == durIn = NoneV /\ durOut = Pending

InitDuration ==
    /\ durIn \in DurInputs
    /\ durOut = Pending
    /\ ServerIdle /\ FmtIdle /\ KeyIdle

ConvertDuration ==
    /\ durOut = Pending
    /\ durOut' = to_iso_duration(durIn)
    /\ UNCHANGED <<durIn, serverVars, fmtVars, keyVars>>

SpecDuration == InitDuration /\ [][ConvertDuration]_vars

-----------------------------------------------------------------------------
(* Dictionaries of the extraction library.  A dictionary is a record over  *)
(* the fields the code reads; a field holds Missing when the key is not in *)
(* the dictionary, NoneV when its value is None, Some(x) otherwise.        *)

Missing == [missing |-> TRUE]

\* d.get(k): None for a missing key
DictGet(d, k) == IF d[k] = Missing THEN NoneV ELSE d[k]

\* d.get(k, default)
DictGetOr(d, k, default) == IF d[k] = Missing THEN default ELSE d[k]

\* truth value of a dictionary: the empty dictionary is falsy
DictEmpty(d) == \A k \in DOMAIN d : d[k] = Missing

-----------------------------------------------------------------------------
(* build_formats_list                                                      *)

\* kind of one format: has_video = f.get('vcodec') != 'none', and likewise
\* has_audio; None stands for "no kind"
FormatKind(f) ==
    LET has_video == DictGet(f, "vcodec") # Some("none")
        has_audio == DictGet(f, "acodec") # Some("none")
    IN IF has_video /\ has_audio THEN Some("progressive")
       ELSE IF has_video THEN Some("video-only")
       ELSE IF has_audio THEN Some("audio-only")
       ELSE NoneV

\* the filter of the loop: `if not url_f: continue`, `if not kind: continue`
FormatKept(f) ==
    /\ DictGet(f, "url").some /\ DictGet(f, "url").v # ""
    /\ FormatKind(f).some

FormatEntry(f) ==
    [kind |-> FormatKind(f).v, abr |-> DictGet(f, "abr"),
     url |-> DictGet(f, "url").v]

RECURSIVE FormatEntries(_)
FormatEntries(fs) ==
    IF fs = <<>> THEN <<>>
    ELSE (IF FormatKept(Head(fs)) THEN <<FormatEntry(Head(fs))>> ELSE <<>>)
         \o FormatEntries(Tail(fs))

\* info is an optional dictionary; None.get and iterating None raise
build_formats_list(info) ==
    IF ~info.some THEN Raised
    ELSE LET formats == DictGetOr(info.v, "formats", Some(<<>>))
         IN IF ~formats.some THEN Raised
            ELSE Returned(FormatEntries(formats.v))

-----------------------------------------------------------------------------
(* Responses.                                                              *)

Json(status, body) == [status |-> status, json |-> TRUE, body |-> body]
ErrorBody(msg) == [error |-> msg]

\* an exception that leaves the view function: Flask answers with its own
\* 500 page, which is not a JSON body
Escaped == [status |-> 500, json |-> FALSE, body |-> [html |-> "500"]]

\* a value of the extraction result that jsonify cannot encode (an object
\* of a class of the library, a set, bytes): jsonify raises TypeError
Unencodable == "<object>"

\* the title is the field of the samples that can hold such a value
TitleRaises(title) == title = Some(Unencodable)

-----------------------------------------------------------------------------
(* /api/audio after extract_info has returned (info, err, code)            *)

IsAudio(e) == e.kind \in {"audio-only", "progressive"}
IsVideo(e) == e.kind \in {"video-only", "progressive"}

\* list.sort(key=lambda x: x.get('abr', 0), reverse=True): every entry has
\* the key 'abr', so the default is never used; comparing None raises as
\* soon as two entries are compared
SortRaises(es) == Len(es) >= 2 /\ \E i \in 1..Len(es) : ~es[i].abr.some

RECURSIVE InsertDesc(_, _)
\* x inserted after the entries whose bitrate is not smaller (stable)
InsertDesc(sorted, x) ==
    IF sorted = <<>> THEN <<x>>
    ELSE IF Head(sorted).abr.v >= x.abr.v
         THEN <<Head(sorted)>> \o InsertDesc(Tail(sorted), x)
         ELSE <<x>> \o sorted

RECURSIVE SortDesc(_)
SortDesc(es) ==
    IF Len(es) <= 1 THEN es
    ELSE InsertDesc(SortDesc(SubSeq(es, 1, Len(es) - 1)), es[Len(es)])

\* the metadata fields copied from the extraction result, absent ones as null
InfoMeta(info) ==
    [title |-> DictGet(info, "title"), duration |-> DictGet(info, "duration")]

\* ex: what extract_info returned
audio_response(ex) ==
    IF ex.err.some THEN Json(ex.code, ex.err.v)
    ELSE IF ~ex.info.some \/ DictEmpty(ex.info.v)
         THEN Json(500, ErrorBody("Failed to extract video information"))
    ELSE LET all_formats == build_formats_list(ex.info)
         IN IF all_formats.raised
            THEN Json(500, ErrorBody("Internal server error"))
            ELSE LET audio_formats == SelectSeq(all_formats.val, IsAudio)
                 IN IF audio_formats = <<>>
                    THEN Json(404, [error |-> "No audio formats available",
                                    audio_formats |-> <<>>])
                    ELSE IF \/ SortRaises(audio_formats)
                            \/ TitleRaises(DictGet(ex.info.v, "title"))
                    THEN Json(500, ErrorBody("Internal server error"))
                    ELSE Json(200,
                              [audio_formats |-> SortDesc(audio_formats),
                               meta |-> InfoMeta(ex.info.v),
                               best_audio_url |->
                                   SortDesc(audio_formats)[1].url])

-----------------------------------------------------------------------------
(* The format specification: build_formats_list and /api/audio applied to  *)
(* every extraction result with at most MaxFormats formats.                *)

Urls == {Missing, Some(""), Some("u1"), Some("u2")}
VCodecs == {Missing, Some("none"), Some("avc1")}
ACodecs == {Missing, Some("none"), Some("mp4a")}
Bitrates == {Missing, NoneV, Some(64), Some(128)}

FormatDicts == [url : Urls, vcodec : VCodecs, acodec : ACodecs, abr : Bitrates]

Info(title, formats, related, entries) ==
    [title |-> title, duration |-> IF title = Missing THEN Missing ELSE Some(7),
     formats |-> formats, related |-> related, entries |-> entries]

Extracted(info) == [info |-> Some(info), err |-> NoneV, code |-> 0]

InitFormats ==
    /\ fmtIn \in {Info(Some("t1"), Some(fs), Missing, Missing) :
                      fs \in SeqsUpTo(FormatDicts, MaxFormats)}
    /\ fmtOut = Pending
    /\ audioOut = Pending
    /\ ServerIdle /\ DurIdle /\ KeyIdle

BuildFormats ==
    /\ fmtOut = Pending
    /\ fmtOut' = build_formats_list(Some(fmtIn))
    /\ UNCHANGED <<fmtIn, audioOut, serverVars, durVars, keyVars>>

AudioRequest ==
    /\ audioOut = Pending
    /\ audioOut' = audio_response(Extracted(fmtIn))
    /\ UNCHANGED <<fmtIn, fmtOut, serverVars, durVars, keyVars>>

NextFormats == BuildFormats \/ AudioRequest

SpecFormats == InitFormats /\ [][NextFormats]_vars

-----------------------------------------------------------------------------
(* Requests, the authentication gate and the cache keys.                   *)

API_KEY == "zefron@123"

\* the routes, named as their view functions are
CachingDual == {"fast_meta", "meta"}
CachingIdUrl == {"channel", "playlist"}
Social == {"instagram", "twitter", "tiktok", "facebook"}
Uncached == {"all", "download", "audio", "video"}
Caching == {"home"} \cup CachingDual \cup CachingIdUrl \cup Social
DualInput == {"fast_meta", "all", "meta", "download", "audio", "video"}
Endpoints == Caching \cup Uncached \cup {"test"}

\* the decorator with the header taking precedence over the parameter
require_api_key_header_first(api_key, x_api_key) ==
    (IF x_api_key.some /\ x_api_key.v # "" THEN x_api_key ELSE api_key)
        = Some(API_KEY)

\* the decorator's test: request.args.get('api_key') or
\* request.headers.get('X-API-Key'), compared with API_KEY
require_api_key(api_key, x_api_key) ==
    (IF api_key.some /\ api_key.v # "" THEN api_key ELSE x_api_key)
        = Some(API_KEY)

\* request.args.get(name, '').strip()
Arg(o) == Strip(OrEmpty(o))

KeyPrefix(ep) ==
    CASE ep = "fast_meta" -> <<"f", "a", "s", "t", "_", "m", "e", "t", "a", ":">>
      [] ep = "meta" -> <<"m", "e", "t", "a", ":">>
      [] ep = "channel" -> <<"c", "h", "a", "n", "n", "e", "l", ":">>
      [] ep = "playlist" -> <<"p", "l", "a", "y", "l", "i", "s", "t", ":">>
      [] ep = "instagram" -> <<"i", "n", "s", "t", "a", "g", "r", "a", "m", ":">>
      [] ep = "twitter" -> <<"t", "w", "i", "t", "t", "e", "r", ":">>
      [] ep = "tiktok" -> <<"t", "i", "k", "t", "o", "k", ":">>
      [] ep = "facebook" -> <<"f", "a", "c", "e", "b", "o", "o", "k", ":">>

\* the key each caching view function builds from its parameters; p1 is
\* `search` (fast_meta, meta) or `id` (channel, playlist)
cache_key(ep, p1, url) ==
    IF ep = "home" THEN <<"h", "o", "m", "e">>
    ELSE IF ep \in CachingDual
         THEN KeyPrefix(ep) \o Arg(p1) \o <<":">> \o Arg(url)
    ELSE IF ep \in CachingIdUrl
         THEN KeyPrefix(ep) \o (IF Arg(p1) # <<>> THEN Arg(p1) ELSE Arg(url))
    ELSE KeyPrefix(ep) \o Arg(url)

-----------------------------------------------------------------------------
(* The cache-key specification: the keys of two requests to the caching    *)
(* endpoints that take two parameters.                                     *)

KeyChars == {"a", ":", " "}
KeyParams == {NoneV} \cup {Some(s) : s \in SeqsUpTo(KeyChars, MaxParamLen)}
KeyRequests == [ep : CachingDual \cup CachingIdUrl, p1 : KeyParams,
                url : KeyParams]

InitKeys ==
    /\ keyReqA \in KeyRequests
    /\ keyReqB = NoneV
    /\ keyOut = Pending
    /\ ServerIdle /\ DurIdle /\ FmtIdle

DeriveKeys ==
    /\ keyOut = Pending
    /\ keyReqB' \in KeyRequests
    /\ keyOut' = [a |-> cache_key(keyReqA.ep, keyReqA.p1, keyReqA.url),
                  b |-> cache_key(keyReqB'.ep, keyReqB'.p1, keyReqB'.url)]
    /\ UNCHANGED <<keyReqA, serverVars, durVars, fmtVars>>

SpecKeys == InitKeys /\ [][DeriveKeys]_vars

-----------------------------------------------------------------------------
(* C10: on /api/fast-meta, /api/meta, /api/channel and /api/playlist two   *)
(* requests whose stripped parameter tuples differ never get the same      *)
(* cache key, so a hit returns a body stored for the same endpoint and     *)
(* the same stripped parameter values.                                     *)

C10_KeysInjective ==
    (keyOut # Pending /\ keyOut.a = keyOut.b) =>
        /\ keyReqA.ep = keyReqB.ep
        /\ Arg(keyReqA.p1) = Arg(keyReqB.p1)
        /\ Arg(keyReqA.url) = Arg(keyReqB.url)

-----------------------------------------------------------------------------
(* The external libraries.  A call raises, or returns None or a            *)
(* dictionary; what it returns is not under the program's control, so      *)
(* every call draws its outcome from the samples below.                    *)

AudioFmt(u, abr) ==
    [url |-> Some(u), vcodec |-> Some("none"), acodec |-> Some("mp4a"),
     abr |-> abr]

EmptyInfo == Info(Missing, Missing, Missing, Missing)

InfoSamples ==
    { Info(Some("t1"), Some(<<AudioFmt("u1", Some(64))>>), Missing, Missing),
      Info(Some("t2"), Some(<<AudioFmt("u2", Some(128))>>), Missing, Missing),
      EmptyInfo,
      \* an empty format list
      Info(Some("t1"), Some(<<>>), Missing, Missing),
      \* a related video whose thumbnail list is empty
      Info(Some("t1"), Some(<<AudioFmt("u1", Some(64))>>),
           Some(<<[thumbnails |-> Some(<<>>)]>>), Missing),
      \* two audio formats, one without a bitrate
      Info(Some("t1"), Some(<<AudioFmt("u1", NoneV), AudioFmt("u2", Some(64))>>),
           Missing, Missing),
      \* a playlist with one entry
      Info(Some("t1"), Missing, Missing, Some(<<[id |-> Some("v")]>>)),
      \* a title that jsonify cannot encode
      Info(Some(Unencodable), Some(<<AudioFmt("u1", Some(64))>>), Missing,
           Missing) }

\* ydl.extract_info(...) on a URL or an id
YdlResults == {Raised, Returned(NoneV)} \cup {Returned(Some(i)) : i \in InfoSamples}

\* ydl.extract_info("ytsearch:...")
YdlSearchResults ==
    { Raised, Returned(NoneV), Returned(Some(EmptyInfo)),
      Returned(Some(Info(Missing, Missing, Missing, Some(<<>>)))),
      Returned(Some(Info(Missing, Missing, Missing, Some(<<[id |-> Missing]>>)))),
      Returned(Some(Info(Missing, Missing, Missing, Some(<<[id |-> Some("v")]>>)))) }


Vid(title, url_suffix, duration, thumbnails) ==
    [title |-> title, url_suffix |-> url_suffix, duration |-> duration,
     thumbnails |-> thumbnails]

WatchSuffix == <<"/", "w", "?", "v", "=", "x">>

\* YoutubeSearch(q, max_results=1).to_dict()
YoutubeSearchResults ==
    { Raised, Returned(<<>>),
      Returned(<<Vid(Some("t1"), Some(WatchSuffix), Some(<<"7", ":", "0", "7">>),
                     Some(<<"th">>))>>),
      Returned(<<Vid(Some("t2"), Some(WatchSuffix), Missing, Missing)>>),
      Returned(<<Vid(Some("t1"), Missing, Missing, Missing)>>),
      Returned(<<Vid(Some("t1"), Some(WatchSuffix), Some(<<"x", ":", "7">>),
                     Missing)>>),
      Returned(<<Vid(Some("t1"), Some(WatchSuffix), Missing, Some(<<>>))>>) }

SearchFound ==
    Returned(Some(Info(Missing, Missing, Missing, Some(<<[id |-> Some("v")]>>))))

\* one outcome for each call a request can make.  A view function calls
\* YoutubeSearch alone, or the URL extraction alone, or the search and,
\* when it found a video, the URL extraction: every outcome of every view
\* function arises with one call varied and the others succeeding
Worlds ==
    {[search |-> x, direct |-> Returned(Some(EmptyInfo)),
      youtube |-> Returned(<<>>)] : x \in YdlSearchResults}
    \cup {[search |-> SearchFound, direct |-> x,
           youtube |-> Returned(<<>>)] : x \in YdlResults}
    \cup {[search |-> SearchFound, direct |-> Returned(Some(EmptyInfo)),
           youtube |-> x] : x \in YoutubeSearchResults}

-----------------------------------------------------------------------------
(* extract_info                                                            *)

ExtractError(msg, code, calls) ==
    [info |-> NoneV, err |-> Some(ErrorBody(msg)), code |-> code,
     calls |-> calls]

extract_info(url, search_query, lib) ==
    IF Truthy(search_query) THEN
        IF lib.search.raised \/ ~lib.search.val.some
        THEN ExtractError("Extraction failed", 500, 1)
        ELSE LET entries == DictGet(lib.search.val.v, "entries")
             IN IF ~entries.some \/ entries.v = <<>>
                THEN ExtractError("No search results", 404, 1)
                ELSE IF ~DictGet(entries.v[1], "id").some
                THEN ExtractError("Invalid video ID from search", 404, 1)
                ELSE IF lib.direct.raised
                THEN ExtractError("Extraction failed", 500, 2)
                ELSE [info |-> lib.direct.val, err |-> NoneV, code |-> 0,
                      calls |-> 2]
    ELSE IF lib.direct.raised THEN ExtractError("Extraction failed", 500, 1)
    ELSE [info |-> lib.direct.val, err |-> NoneV, code |-> 0, calls |-> 1]

-----------------------------------------------------------------------------
(* The view functions from the first library call on.  Each yields the    *)
(* response, whether the body is stored in the cache first, and the number *)
(* of library calls made.                                                  *)

Outcome(resp, store, calls) == [resp |-> resp, store |-> store, calls |-> calls]

\* '' or None: the argument api_all and api_meta hand to extract_info
OrNone(s) == IF s = <<>> THEN NoneV ELSE Some(s)

\* vid.get('url_suffix').split('v=')[-1]
RECURSIVE AfterLastVEq(_)
AfterLastVEq(s) ==
    IF \E i \in 1..(Len(s) - 1) : s[i] = "v" /\ s[i + 1] = "="
    THEN LET i == CHOOSE j \in 1..(Len(s) - 1) : s[j] = "v" /\ s[j + 1] = "="
         IN AfterLastVEq(SubSeq(s, i + 2, Len(s)))
    ELSE s

fast_meta_search(lib) ==
    IF lib.youtube.raised THEN Outcome(Json(500, ErrorBody("exception")), FALSE, 1)
    ELSE IF lib.youtube.val = <<>>
         THEN Outcome(Json(404, ErrorBody("No results")), FALSE, 1)
    ELSE LET vid == lib.youtube.val[1]
             thumbnails == DictGetOr(vid, "thumbnails", Some(<<NoneV>>))
             duration == to_iso_duration(DictGetOr(vid, "duration", Some(<<>>)))
         IN IF \/ ~DictGet(vid, "url_suffix").some
               \/ duration.raised
               \/ ~thumbnails.some
               \/ thumbnails.v = <<>>
            THEN Outcome(Json(500, ErrorBody("exception")), FALSE, 1)
            ELSE Outcome(Json(200,
                     [title |-> DictGet(vid, "title"),
                      link |-> [prefix |-> "https://www.youtube.com/watch?v=",
                                id |-> AfterLastVEq(DictGet(vid, "url_suffix").v)],
                      duration |-> duration.val,
                      thumbnail |-> thumbnails.v[1]]), TRUE, 1)

\* str(x) of an optional number
PyStr(o) == IF o.some THEN Dec(o.v) ELSE <<"N", "o", "n", "e">>

\* the samples carry neither 'webpage_url' nor 'thumbnail'
fast_meta_url(lib) ==
    IF lib.direct.raised \/ ~lib.direct.val.some
    THEN Outcome(Json(500, ErrorBody("exception")), FALSE, 1)
    ELSE Outcome(Json(200,
             [title |-> DictGet(lib.direct.val.v, "title"),
              link |-> NoneV,
              duration |-> to_iso_duration(
                  Some(PyStr(DictGet(lib.direct.val.v, "duration")))).val,
              thumbnail |-> NoneV]), TRUE, 1)

api_fast_meta(r, lib) ==
    IF Arg(r.p1) # <<>> THEN fast_meta_search(lib) ELSE fast_meta_url(lib)

api_meta(r, lib) ==
    LET ex == extract_info(OrNone(Arg(r.url)), OrNone(Arg(r.p1)), lib)
    IN IF ex.err.some THEN Outcome(Json(ex.code, ex.err.v), FALSE, ex.calls)
       ELSE IF ~ex.info.some THEN Outcome(Escaped, FALSE, ex.calls)
       ELSE Outcome(Json(200, [metadata |-> InfoMeta(ex.info.v)]), TRUE, ex.calls)

\* rel.get('thumbnails', [{}])[0] raises on None and on an empty list
SuggestionRaises(rel) ==
    LET thumbnails == DictGetOr(rel, "thumbnails", Some(<<[url |-> Missing]>>))
    IN ~thumbnails.some \/ thumbnails.v = <<>>

api_all(r, lib) ==
    LET ex == extract_info(OrNone(Arg(r.url)), OrNone(Arg(r.p1)), lib)
    IN IF ex.err.some THEN Outcome(Json(ex.code, ex.err.v), FALSE, ex.calls)
       ELSE IF build_formats_list(ex.info).raised
            THEN Outcome(Escaped, FALSE, ex.calls)
       ELSE LET related == DictGetOr(ex.info.v, "related", Some(<<>>))
            IN IF ~related.some
                  \/ \E i \in 1..Len(related.v) : SuggestionRaises(related.v[i])
                  \/ TitleRaises(DictGet(ex.info.v, "title"))
               THEN Outcome(Escaped, FALSE, ex.calls)
               ELSE Outcome(Json(200,
                        [meta |-> InfoMeta(ex.info.v),
                         formats |-> build_formats_list(ex.info).val,
                         suggestions |-> [i \in 1..Len(related.v) |->
                             DictGetOr(related.v[i], "thumbnails",
                                       Some(<<[url |-> Missing]>>)).v[1]]]),
                        FALSE, ex.calls)

\* api_channel and api_playlist: ydl.extract_info(id or url) inside try
api_channel(r, lib) ==
    IF lib.direct.raised \/ ~lib.direct.val.some
    THEN Outcome(Json(500, ErrorBody("exception")), FALSE, 1)
    ELSE Outcome(Json(200, [name |-> DictGet(lib.direct.val.v, "title")]),
                 TRUE, 1)

api_playlist(r, lib) ==
    IF lib.direct.raised \/ ~lib.direct.val.some
    THEN Outcome(Json(500, ErrorBody("exception")), FALSE, 1)
    ELSE LET entries == DictGetOr(lib.direct.val.v, "entries", Some(<<>>))
         IN IF ~entries.some
            THEN Outcome(Json(500, ErrorBody("exception")), FALSE, 1)
            ELSE Outcome(Json(200,
                     [title |-> DictGet(lib.direct.val.v, "title"),
                      videos |-> [i \in 1..Len(entries.v) |->
                                     DictGet(entries.v[i], "id")]]), TRUE, 1)

\* api_instagram, api_twitter, api_tiktok, api_facebook: the extraction
\* result itself is stored and returned, None (JSON null) included
api_social(r, lib) ==
    IF lib.direct.raised
    THEN Outcome(Json(500, ErrorBody("exception")), FALSE, 1)
    ELSE Outcome(Json(200, IF lib.direct.val.some THEN lib.direct.val.v
                           ELSE NoneV), TRUE, 1)

api_download(r, lib) ==
    LET ex == extract_info(r.url, r.p1, lib)
    IN IF ex.err.some THEN Outcome(Json(ex.code, ex.err.v), FALSE, ex.calls)
       ELSE IF ~ex.info.some \/ DictEmpty(ex.info.v)
            THEN Outcome(Json(500, ErrorBody("Failed to extract video information")),
                         FALSE, ex.calls)
       ELSE IF build_formats_list(ex.info).raised
            THEN Outcome(Json(500, ErrorBody("Internal server error")),
                         FALSE, ex.calls)
       ELSE IF build_formats_list(ex.info).val = <<>>
            THEN Outcome(Json(404, [error |-> "No download formats available",
                                    formats |-> <<>>]), FALSE, ex.calls)
       ELSE IF TitleRaises(DictGet(ex.info.v, "title"))
            THEN Outcome(Json(500, ErrorBody("Internal server error")),
                         FALSE, ex.calls)
       ELSE Outcome(Json(200, [formats |-> build_formats_list(ex.info).val,
                               meta |-> InfoMeta(ex.info.v)]), FALSE, ex.calls)

api_audio(r, lib) ==
    LET ex == extract_info(r.url, r.p1, lib)
    IN Outcome(audio_response(ex), FALSE, ex.calls)

api_video(r, lib) ==
    LET ex == extract_info(r.url, r.p1, lib)
    IN IF ex.err.some THEN Outcome(Json(ex.code, ex.err.v), FALSE, ex.calls)
       ELSE IF build_formats_list(ex.info).raised
            THEN Outcome(Escaped, FALSE, ex.calls)
       ELSE Outcome(Json(200,
                [video_formats |->
                    SelectSeq(build_formats_list(ex.info).val, IsVideo)]),
                FALSE, ex.calls)

Serve(r, lib) ==
    CASE r.ep = "fast_meta" -> api_fast_meta(r, lib)
      [] r.ep = "meta" -> api_meta(r, lib)
      [] r.ep = "all" -> api_all(r, lib)
      [] r.ep = "channel" -> api_channel(r, lib)
      [] r.ep = "playlist" -> api_playlist(r, lib)
      [] r.ep \in Social -> api_social(r, lib)
      [] r.ep = "download" -> api_download(r, lib)
      [] r.ep = "audio" -> api_audio(r, lib)
      [] r.ep = "video" -> api_video(r, lib)

-----------------------------------------------------------------------------
(* The cache: flask_caching's in-memory SimpleCache with no timeout.       *)
(* get answers None for a key that is not stored.                          *)

CacheGet(c, k) == IF k \in DOMAIN c THEN c[k] ELSE NoneV
CacheSet(c, k, v) == [x \in DOMAIN c \cup {k} |-> IF x = k THEN v ELSE c[x]]
CacheDelete(c, k) == [x \in DOMAIN c \ {k} |-> c[x]]

\* the test each view function applies to what cache.get returned:
\* `is not None` in api_fast_meta, truthiness everywhere else (None and the
\* empty dictionary are falsy)
CacheHit(ep, cached) ==
    IF ep = "fast_meta" THEN cached # NoneV
    ELSE cached # NoneV /\ cached # EmptyInfo

\* the parameter test reading `is None` where the code tests truth
MissingParamsNoneOnly(r) ==
    IF r.ep \in {"home", "test"} THEN FALSE
    ELSE IF r.ep \in Social THEN ~r.url.some
    ELSE ~r.p1.some /\ ~r.url.some

\* the view function's test for missing required parameters
MissingParams(r) ==
    IF r.ep \in {"home", "test"} THEN FALSE
    ELSE IF r.ep \in {"download", "audio", "video"}
         THEN ~(Truthy(r.url) \/ Truthy(r.p1))
    ELSE IF r.ep \in Social THEN Arg(r.url) = <<>>
    ELSE Arg(r.p1) = <<>> /\ Arg(r.url) = <<>>

\* the invalidation done whether or not `latest` is given
InvalidateAlways(c, r, k) == CacheDelete(c, k)

\* the invalidation left out
InvalidateNever(c, r, k) == c

\* `if 'latest' in request.args: cache.delete(key)`
Invalidate(c, r, k) == IF r.latest THEN CacheDelete(c, k) ELSE c

HomeBody == [message |-> "YouTube API is alive"]

\* jsonify(data) raises on the body of a caching route
JsonRaises(ep, body) ==
    CASE ep = "home" -> FALSE
      [] ep \in {"fast_meta", "playlist"} -> TitleRaises(body.title)
      [] ep = "meta" -> TitleRaises(body.metadata.title)
      [] ep = "channel" -> TitleRaises(body.name)
      [] ep \in Social -> body # NoneV /\ TitleRaises(body.title)

\* `return jsonify(cached)`: outside every try
HitResponse(ep, cached) ==
    IF JsonRaises(ep, cached) THEN Escaped ELSE Json(200, cached)

\* `return jsonify(data)` after cache.set: inside the try of the view
\* function where it has one (home and api_meta have none)
StoreResponse(ep, body) ==
    IF ~JsonRaises(ep, body) THEN Json(200, body)
    ELSE IF ep = "meta" THEN Escaped
    ELSE Json(500, ErrorBody("exception"))

-----------------------------------------------------------------------------
(* The server: NumWorkers threads, each serving one request at a time.  A  *)
(* request to a cached route is served in the steps between which other    *)
(* threads can run (invalidate, look up, call the library, store); a       *)
(* request that touches no shared state is served in one step.             *)

Workers == 1..NumWorkers

KeyArgs == {NoneV, Some(""), Some(API_KEY), Some("wrong")}
KeyHeaders == {NoneV, Some(API_KEY), Some("wrong")}
Params == {NoneV, Some(<<>>), Some(<<" ", "a">>)}

Request(ep, p1, url, latest) ==
    [ep |-> ep, p1 |-> p1, url |-> url, latest |-> latest]

Requests ==
    {Request(ep, p1, url, l) :
        ep \in (DualInput \cup CachingIdUrl), p1 \in Params, url \in Params,
        l \in BOOLEAN}
    \cup {Request(ep, NoneV, url, l) :
        ep \in Social, url \in Params, l \in BOOLEAN}
    \cup {Request(ep, NoneV, NoneV, l) : ep \in {"home", "test"}, l \in BOOLEAN}

\* the requests of the race specification: one parameter value per route
RaceRequests ==
    {Request(ep, Some(<<" ", "a">>), NoneV, l) :
        ep \in {"meta", "channel"}, l \in BOOLEAN}
    \cup {Request(ep, NoneV, Some(<<" ", "a">>), l) :
        ep \in {"fast_meta", "playlist", "instagram"}, l \in BOOLEAN}
    \cup {Request("home", NoneV, NoneV, l) : l \in BOOLEAN}

NoRepeat == [on |-> FALSE]

\* pc: where the thread is; req, key, body: the view function's locals;
\* the other fields are history: whether the presented key was the secret,
\* library calls and cache operations made, whether the response came from
\* the cache, whether another thread stored under the key between this
\* request's invalidation and its lookup, the body of the identical request
\* answered 200 immediately before (rep), and the last value stored under
\* the key when this request looked it up (seen), whether its
\* invalidation removed an entry (dropped), and whether it called
\* cache.set (stored)
IdleSlot ==
    [pc |-> "idle", req |-> NoneV, key |-> <<>>, body |-> NoneV,
     keyOk |-> TRUE, calls |-> 0, ops |-> 0, hit |-> FALSE, raced |-> FALSE,
     dropped |-> FALSE, rep |-> NoRepeat, seen |-> NoneV, stored |-> FALSE]

Init ==
    /\ cache = << >>
    /\ lastStored = << >>
    /\ slots = [w \in Workers |-> IdleSlot]
    /\ prev = NoneV
    /\ nreq = 0
    /\ DurIdle /\ FmtIdle /\ KeyIdle

\* the presented key is the secret: the query parameter if it is not
\* empty, the header otherwise
KeyValid(api_key, x_api_key) ==
    \/ api_key = Some(API_KEY)
    \/ (api_key \in {NoneV, Some("")} /\ x_api_key = Some(API_KEY))

Quiet == \A v \in Workers : slots[v].pc = "idle"

\* r, authorized like the request answered immediately before it, repeats
\* that request
Repeat(r, keyOk) ==
    IF /\ Quiet /\ prev.some /\ prev.req = r /\ prev.keyOk /\ keyOk
       /\ prev.resp.status = 200 /\ ~r.latest
    THEN [on |-> TRUE, body |-> prev.resp.body]
    ELSE NoRepeat

Arrival(r, keyOk) ==
    [IdleSlot EXCEPT !.req = r, !.rep = Repeat(r, keyOk), !.keyOk = keyOk]

\* history: the request just answered, with its response
Completed(sl, resp) ==
    [some |-> TRUE, req |-> sl.req, resp |-> resp, keyOk |-> sl.keyOk,
     calls |-> sl.calls, ops |-> sl.ops, hit |-> sl.hit, raced |-> sl.raced,
     dropped |-> sl.dropped, rep |-> sl.rep, seen |-> sl.seen,
     stored |-> sl.stored]

\* history: a request has arrived while the others were being served
Interleaved == [v \in Workers |-> [slots[v] EXCEPT !.rep = NoRepeat]]

\* the key pairs the decorator lets through, and those it turns away
Admitted ==
    {kh \in KeyArgs \X KeyHeaders : require_api_key(kh[1], kh[2])}
Refused == (KeyArgs \X KeyHeaders) \ Admitted

\* history: whether the key pairs of a set present the secret
Validity(pairs) == {KeyValid(kh[1], kh[2]) : kh \in pairs}

\* the decorator turns the request away
Reject(RS, budget) ==
    /\ nreq < budget
    /\ \E w \in Workers : slots[w].pc = "idle"
    /\ \E r \in RS, keyOk \in Validity(Refused) :
        prev' = Completed(Arrival(r, keyOk),
                          Json(401, ErrorBody("Invalid or missing API key")))
    /\ slots' = Interleaved
    /\ nreq' = nreq + 1
    /\ UNCHANGED <<cache, lastStored, durVars, fmtVars, keyVars>>

\* test_endpoint, api_all, api_download, api_audio, api_video: no cache
ServeUncached(RS, budget) ==
    /\ nreq < budget
    /\ \E w \in Workers : slots[w].pc = "idle"
    /\ \E r \in {x \in RS : x.ep \in Uncached \cup {"test"}},
          keyOk \in Validity(Admitted) :
        LET sl == Arrival(r, keyOk)
        IN IF r.ep = "test"
           THEN \E now \in 1..budget :
                  prev' = Completed(sl, Json(200, [status |-> "success",
                                                   timestamp |-> now]))
           ELSE IF MissingParams(r)
           THEN prev' = Completed(sl, Json(400, ErrorBody("Provide url or search")))
           ELSE \E out \in {Serve(r, lib) : lib \in Worlds} :
                  prev' = Completed([sl EXCEPT !.calls = out.calls], out.resp)
    /\ slots' = Interleaved
    /\ nreq' = nreq + 1
    /\ UNCHANGED <<cache, lastStored, durVars, fmtVars, keyVars>>

\* a request to a cached route arrives at worker w: the decorator, the
\* parameters, the key and the invalidation
Receive(w, RS, budget) ==
    /\ slots[w].pc = "idle"
    /\ nreq < budget
    /\ \E r \in {x \in RS : x.ep \in Caching}, keyOk \in Validity(Admitted) :
        LET key == cache_key(r.ep, r.p1, r.url)
        IN /\ cache' = Invalidate(cache, r, key)
           /\ lastStored' =
                IF r.latest
                THEN [k \in DOMAIN lastStored \ {key} |-> lastStored[k]]
                ELSE lastStored
           /\ slots' = [Interleaved EXCEPT ![w] =
                [Arrival(r, keyOk) EXCEPT
                    !.pc = "lookup", !.key = key,
                    !.ops = IF r.latest THEN 1 ELSE 0,
                    !.dropped = r.latest /\ key \in DOMAIN cache]]
    /\ nreq' = nreq + 1
    /\ UNCHANGED <<prev, durVars, fmtVars, keyVars>>

\* cache.get, then the hit test, then the parameter check
Lookup(w) ==
    LET sl == slots[w]
        cached == CacheGet(cache, sl.key)
        looked == [sl EXCEPT !.ops = @ + 1,
                      !.seen = IF sl.key \in DOMAIN lastStored
                               THEN Some(lastStored[sl.key]) ELSE NoneV]
    IN /\ sl.pc = "lookup"
       /\ IF CacheHit(sl.req.ep, cached)
          THEN /\ slots' = [slots EXCEPT ![w] = IdleSlot]
               /\ prev' = Completed([looked EXCEPT !.hit = TRUE],
                                    HitResponse(sl.req.ep, cached))
          ELSE IF sl.req.ep = "home"
          THEN /\ slots' = [slots EXCEPT ![w] =
                              [looked EXCEPT !.pc = "store", !.body = HomeBody]]
               /\ UNCHANGED prev
          ELSE IF MissingParams(sl.req)
          THEN /\ slots' = [slots EXCEPT ![w] = IdleSlot]
               /\ prev' = Completed(looked, Json(400, ErrorBody("Provide")))
          ELSE /\ slots' = [slots EXCEPT ![w] = [looked EXCEPT !.pc = "extract"]]
               /\ UNCHANGED prev
       /\ UNCHANGED <<cache, lastStored, nreq, durVars, fmtVars, keyVars>>

\* the library calls and the shaping of the response
Extract(w) ==
    LET sl == slots[w]
    IN /\ sl.pc = "extract"
       /\ \E out \in {Serve(sl.req, lib) : lib \in Worlds} :
            LET called == [sl EXCEPT !.calls = out.calls]
            IN IF out.store
               THEN /\ slots' = [slots EXCEPT ![w] =
                          [called EXCEPT !.pc = "store", !.body = out.resp.body]]
                    /\ UNCHANGED prev
               ELSE /\ slots' = [slots EXCEPT ![w] = IdleSlot]
                    /\ prev' = Completed(called, out.resp)
       /\ UNCHANGED <<cache, lastStored, nreq, durVars, fmtVars, keyVars>>

\* cache.set(key, data) and `return jsonify(data)`
Store(w) ==
    LET sl == slots[w]
    IN /\ sl.pc = "store"
       /\ cache' = CacheSet(cache, sl.key, sl.body)
       /\ lastStored' =
            [k \in DOMAIN lastStored \cup {sl.key} |->
                IF k = sl.key
                THEN [val |-> sl.body]
                ELSE lastStored[k]]
       /\ slots' = [v \in Workers |->
            IF v = w THEN IdleSlot
            ELSE IF /\ slots[v].pc = "lookup" /\ slots[v].key = sl.key
                    /\ slots[v].req.latest
                 THEN [slots[v] EXCEPT !.raced = TRUE]
                 ELSE slots[v]]
       /\ prev' = Completed([sl EXCEPT !.ops = @ + 1, !.stored = TRUE],
                            StoreResponse(sl.req.ep, sl.body))
       /\ UNCHANGED <<nreq, durVars, fmtVars, keyVars>>

Next ==
    \/ Reject(Requests, MaxRequests)
    \/ ServeUncached(Requests, MaxRequests)
    \/ \E w \in Workers : Receive(w, Requests, MaxRequests)
    \/ \E w \in Workers : Lookup(w)
    \/ \E w \in Workers : Extract(w)
    \/ \E w \in Workers : Store(w)

Spec == Init /\ [][Next]_vars

\* the race specification: more requests, all to cached routes, one
\* parameter value each
NextRace ==
    \/ \E w \in Workers : Receive(w, RaceRequests, MaxRaceRequests)
    \/ \E w \in Workers : Lookup(w)
    \/ \E w \in Workers : Extract(w)
    \/ \E w \in Workers : Store(w)

SpecRace == Init /\ [][NextRace]_vars

-----------------------------------------------------------------------------
(* The claims about the server are stated on prev, the request answered    *)
(* last, with what it did.                                                 *)

\* the cache key of the request answered last
PrevKey == cache_key(prev.req.ep, prev.req.p1, prev.req.url)

\* the request supplies neither of its two parameters
Neither(r) == ~Truthy(r.p1) /\ ~Truthy(r.url)

\* a stored value that Python takes for false: None or the empty dictionary
EmptyValue(v) == v \in {NoneV, EmptyInfo}

-----------------------------------------------------------------------------
(* C1: on every route and with any other parameters, a request whose       *)
(* effective key (the api_key parameter if not empty, else the X-API-Key   *)
(* header) is absent or wrong is answered 401 and makes no cache           *)
(* operation and no extraction call.                                       *)

C1_Unauthorized401 ==
    (prev.some /\ ~prev.keyOk) =>
        /\ prev.resp.status = 401
        /\ prev.ops = 0
        /\ prev.calls = 0

\* a rejected request for an entry that is in the cache
C1_Witness ==
    /\ prev.some /\ ~prev.keyOk
    /\ prev.resp.status = 401
    /\ prev.req.ep \in Caching
    /\ PrevKey \in DOMAIN cache

-----------------------------------------------------------------------------
(* C2 as stated: on every endpoint, the same authorized request without    *)
(* `latest` issued twice in a row, the first answered 200, gets the same   *)
(* body the second time, from the cache and without an extraction call.    *)

-----------------------------------------------------------------------------
(* C3 as stated, on the routes that extract: an authorized request with    *)
(* `latest` and valid parameters invalidates its key before the lookup,    *)
(* so it performs an extraction itself and answers with its result, never  *)
(* with a body another request stored, under any interleaving.             *)

Forced ==
    /\ prev.some /\ prev.keyOk /\ prev.req.latest
    /\ prev.req.ep \notin {"home", "test"}
    /\ ~MissingParams(prev.req)

C3_LatestRecomputes ==
    Forced => (~prev.hit /\ prev.calls >= 1)

(* C3 amended: this holds unless another request stores under the same     *)
(* key between this request's invalidation and its lookup; then the        *)
(* request is answered from the cache with that other request's body.      *)

C3_LatestRecomputesUnlessRaced ==
    (Forced /\ ~prev.raced) => (~prev.hit /\ prev.calls >= 1)

\* a request with `latest` whose invalidation removed an entry
C3_Witness ==
    /\ Forced /\ ~prev.raced /\ prev.dropped
    /\ ~prev.hit /\ prev.calls >= 1
    /\ prev.resp.status = 200

-----------------------------------------------------------------------------
(* C4: on /api/fast-meta, /api/all, /api/meta, /download, /api/audio and   *)
(* /api/video an authorized request with neither `url` nor `search` is     *)
(* answered 400 with an `error` key, in every cache state, with or without *)
(* `latest`, and no extraction call is made.                               *)

C4_MissingParams400 ==
    (prev.some /\ prev.keyOk /\ prev.req.ep \in DualInput /\ Neither(prev.req)) =>
        /\ prev.resp.status = 400
        /\ prev.resp.json
        /\ "error" \in DOMAIN prev.resp.body
        /\ prev.calls = 0

\* such a request to a cached route, with `latest`, on a non-empty cache
C4_Witness ==
    /\ prev.some /\ prev.keyOk /\ Neither(prev.req)
    /\ prev.req.ep = "fast_meta" /\ prev.req.latest
    /\ prev.resp.status = 400
    /\ cache # << >>

-----------------------------------------------------------------------------
(* C5: every authorized request ends with a JSON response of status 200,   *)
(* 400, 404 or 500, whatever the library does; no exception leaves a view  *)
(* function.                                                               *)

C5_AlwaysJson ==
    (prev.some /\ prev.keyOk) =>
        /\ prev.resp.json
        /\ prev.resp.status \in {200, 400, 404, 500}

-----------------------------------------------------------------------------
(* C6: two concurrent misses of one key both extract and both    *)
(* store; the entry then holds the value stored last, and every later      *)
(* request for the key without `latest` returns exactly that value.        *)

\* every miss with valid parameters calls the library: nothing is shared
MissExtracts ==
    (/\ prev.some /\ prev.keyOk /\ ~prev.hit
     /\ prev.req.ep \in Caching \ {"home"}
     /\ ~MissingParams(prev.req)) => prev.calls >= 1

LastWriteWins ==
    \A k \in DOMAIN lastStored :
        k \in DOMAIN cache /\ cache[k] = lastStored[k].val

\* a request without `latest` that found a value stored under its key
LaterReturnsStored ==
    (prev.some /\ prev.keyOk /\ ~prev.req.latest /\ prev.seen.some) =>
        /\ prev.resp = Json(200, prev.seen.v.val)
        /\ prev.hit
        /\ prev.calls = 0

C6_LastStoreServed ==
    MissExtracts /\ LastWriteWins /\ LaterReturnsStored

-----------------------------------------------------------------------------
(* C8: build_formats_list classifies a format as progressive iff both a    *)
(* video and an audio codec are present, video-only iff only a video codec *)
(* is, audio-only iff only an audio codec is, where a codec that is absent *)
(* from the record or equal to 'none' is not present; and it returns       *)
(* exactly the formats with a non-empty URL and at least one codec, in     *)
(* input order.                                                            *)

CodecPresent(f, c) == DictGet(f, c).some /\ DictGet(f, c).v # "none"

ClaimedKind(f) ==
    IF CodecPresent(f, "vcodec") /\ CodecPresent(f, "acodec") THEN "progressive"
    ELSE IF CodecPresent(f, "vcodec") THEN "video-only"
    ELSE "audio-only"

ClaimedKept(f) ==
    /\ DictGet(f, "url").some /\ DictGet(f, "url").v # ""
    /\ (CodecPresent(f, "vcodec") \/ CodecPresent(f, "acodec"))

RECURSIVE ClaimedEntries(_)
ClaimedEntries(fs) ==
    IF fs = <<>> THEN <<>>
    ELSE (IF ClaimedKept(Head(fs))
          THEN <<[kind |-> ClaimedKind(Head(fs)),
                  abr |-> DictGet(Head(fs), "abr"),
                  url |-> DictGet(Head(fs), "url").v]>>
          ELSE <<>>)
         \o ClaimedEntries(Tail(fs))

C8_FormatsClassified ==
    fmtOut # Pending => fmtOut = Returned(ClaimedEntries(fmtIn.formats.v))

-----------------------------------------------------------------------------
(* C9: when the extraction result has at least one audio-capable format,   *)
(* also when some formats carry no bitrate, /api/audio answers 200 with    *)
(* exactly the audio-capable formats in non-increasing bitrate order and   *)
(* best_audio_url the URL of the first.                                    *)

AudioCapable == SelectSeq(build_formats_list(Some(fmtIn)).val, IsAudio)

Occurrences(s, x) == Cardinality({i \in 1..Len(s) : s[i] = x})
SameEntries(s, t) ==
    /\ Len(s) = Len(t)
    /\ \A i \in 1..Len(s) : Occurrences(s, s[i]) = Occurrences(t, s[i])

\* a format without a bitrate counts as bitrate 0, the default of the sort key
BitrateOf(e) == IF e.abr.some THEN e.abr.v ELSE 0

C9_AudioSorted ==
    (audioOut # Pending /\ AudioCapable # <<>>) =>
        /\ audioOut.status = 200
        /\ SameEntries(audioOut.body.audio_formats, AudioCapable)
        /\ \A i, j \in 1..Len(audioOut.body.audio_formats) :
              i < j => BitrateOf(audioOut.body.audio_formats[i])
                         >= BitrateOf(audioOut.body.audio_formats[j])
        /\ audioOut.body.best_audio_url = audioOut.body.audio_formats[1].url

-----------------------------------------------------------------------------
(* C7: to_iso_duration maps every valid duration string (one to three      *)
(* colon-separated runs of digits) to PT[<H>H]<M>M<S>S, PT<M>M<S>S or      *)
(* PT<S>S, and returns PT0S without raising for every other input.         *)

DurParts == IF Truthy(durIn) THEN Split(durIn.v, ":") ELSE <<>>
DurValid == Len(DurParts) \in 1..3
            /\ \A i \in 1..Len(DurParts) : IsDigitStr(DurParts[i])

IsoExpected ==
    LET n(i) == Dec(PyInt(DurParts[i]))
    IN IF ~DurValid THEN <<"P", "T", "0", "S">>
       ELSE IF Len(DurParts) = 1 THEN <<"P", "T">> \o n(1) \o <<"S">>
       ELSE IF Len(DurParts) = 2
            THEN <<"P", "T">> \o n(1) \o <<"M">> \o n(2) \o <<"S">>
       ELSE <<"P", "T">>
            \o (IF PyInt(DurParts[1]) = 0 THEN <<>> ELSE n(1) \o <<"H">>)
            \o n(2) \o <<"M">> \o n(3) \o <<"S">>

C7_IsoDurationTotal ==
    durOut # Pending => durOut = Returned(IsoExpected)

-----------------------------------------------------------------------------
(* C11: a cache entry is added or overwritten only by a request that is    *)
(* answered 200: a request answered 400, 401, 404 or 500 never calls       *)
(* cache.set; an entry is removed only by an authorized request with       *)
(* `latest`, and only the entry of its own key; the entries of all other   *)
(* keys are left as they are by every step of every request.               *)

\* the entry of k differs before and after the step
Changed(k) ==
    \/ (k \in DOMAIN cache) # (k \in DOMAIN cache')
    \/ k \in DOMAIN cache /\ k \in DOMAIN cache' /\ cache[k] # cache'[k]

\* the step completes a request that has called cache.set(k, ..)
StoredBy(k) ==
    /\ prev'.some /\ prev'.stored
    /\ cache_key(prev'.req.ep, prev'.req.p1, prev'.req.url) = k

\* the step is the invalidation of an authorized request with `latest`
\* whose key is k
DeletedBy(k) ==
    \E w \in Workers :
        /\ slots[w].pc = "idle" /\ slots'[w].pc = "lookup"
        /\ slots'[w].key = k
        /\ slots'[w].req.latest /\ slots'[w].keyOk

StoreOnly200 ==
    /\ (prev'.some /\ prev'.stored) => prev'.resp.status = 200
    /\ \A k \in DOMAIN cache \cup DOMAIN cache' :
          Changed(k) =>
              IF k \in DOMAIN cache' THEN StoredBy(k) ELSE DeletedBy(k)

C11_StoreOnly200 == [][StoreOnly200]_vars

====
